---- MODULE Spec2Model ----
(***************************************************************************)
(* Model of src/run.py: the Makkal Kural e-paper downloader.               *)
(*                                                                         *)
(* One downloader object, one run of download_daily_paper driven by main.  *)
(* The remote service is the environment: the catalog response is drawn    *)
(* when the catalog is listed, and every page descriptor carries its       *)
(* "fate", i.e. what the descriptor holds and how the resolver and the     *)
(* download endpoint will answer for it.                                   *)
(*                                                                         *)
(*   Spec         one run, from main to the process exit                   *)
(*   SpecAsm      the assembly of two staged pages of a large catalog      *)
(*   SpecRuns     further runs on the same downloader object               *)
(*   SpecCleanup  cleanup_temp_files called twice on any directory state   *)
(***************************************************************************)
EXTENDS Integers, Sequences, FiniteSets, TLC

\* ------------------------------------------------------------------ bounds
\* Largest catalog the main specification lists.
MaxPages == 3
\* Positions 1..MaxStale may hold a file left in a reused staging directory.
MaxStale == 1
\* Largest sequence position the assembly specification stages.
MaxPosition == 101
\* Runs of download_daily_paper on one downloader object.
MaxRuns == 2

\* ------------------------------------------------------- program constants
\* f"page_{page_num:02d}.pdf": the minimum width of the page number.
PadWidth == 2

\* ------------------------------------------------------------------- state
VARIABLES
  pc,               \* position of the single thread of control
  catalog,          \* kind of the catalog response get_all_pages received
  pages,            \* download_daily_paper: pages (one fate per descriptor)
  i,                \* download_daily_paper: loop index of enumerate(pages, 1)
  filename,         \* download_daily_paper: filename; 0 is None (or unset), p
                    \* the FileName the resolver gave for the page at position p
  downloaded_files, \* download_daily_paper: positions of the staged paths
  disk,             \* temp_pdfs/: position of page_NN.pdf -> state of the file
  dirExists,        \* temp_pdfs/ exists
  output,           \* the combined document MakkalKural_<date>.pdf
  success,          \* download_daily_paper: success (result of combine_pdfs)
  result,           \* value download_daily_paper returned to main
  exitStatus,       \* process exit status, -1 while the process runs
  visited,          \* positions the per-page loop has taken, in order
  nResolve,         \* requests issued to downloadpdfedition_page
  nFetch,           \* requests issued to Download
  nDelay,           \* calls of time.sleep(1)
  nCombine,         \* calls of combine_pdfs
  nCleanup,         \* calls of cleanup_temp_files
  writeFault,       \* how writing the output file went in combine_pdfs
  intAt,            \* where a KeyboardInterrupt hit the run, or "none"
  run,              \* number of the current run on this downloader object
  blocked           \* fault the last cleanup_temp_files met (see UnlinkFaults)

vars == <<pc, catalog, pages, i, filename, downloaded_files, disk, dirExists,
          output, success, result, exitStatus, visited, nResolve, nFetch,
          nDelay, nCombine, nCleanup, writeFault, intAt, run, blocked>>

\* What a page descriptor and the remote service hold for one page.
\*   noid          the descriptor has no (or an empty) PageId
\*   notdict       the descriptor is not an object: page.get raises
\*   unresolved    the resolver request fails or its body is not JSON
\*   nofilename    the resolver answers without a FileName
\*   fetch_fail    the download request fails before any byte is written
\*   fetch_partial the download stream breaks after the file was opened
\*   fetch_oserror writing the staged file raises OSError
\*   valid         the download succeeds and the file is a parseable PDF
\*   corrupt       the download succeeds and the file does not parse
Fates == {"noid", "notdict", "unresolved", "nofilename", "fetch_fail",
          "fetch_partial", "fetch_oserror", "valid", "corrupt"}

RunPcs == {"start", "loop", "resolve", "fetch", "delay", "after_loop",
           "combine", "cleanup", "finish"}
LoopPcs == {"loop", "resolve", "fetch", "delay"}

Range(s) == {s[k] : k \in 1..Len(s)}

\* ------------------------------------------------- staged file names, sort
RECURSIVE Digits(_)
\* str(n) for n >= 0, as character codes.
Digits(n) == IF n < 10 THEN <<48 + n>> ELSE Append(Digits(n \div 10), 48 + (n % 10))

RECURSIVE ZeroPad(_, _)
ZeroPad(s, w) == IF Len(s) >= w THEN s ELSE ZeroPad(<<48>> \o s, w)

\* f"{page_num:02d}"
Format02d(page_num) == ZeroPad(Digits(page_num), PadWidth)

\* f"page_{page_num:02d}.pdf" as character codes ("page_" and ".pdf").
StagedName(page_num) ==
  <<112, 97, 103, 101, 95>> \o Format02d(page_num) \o <<46, 112, 100, 102>>

\* Python's < on str: lexicographic on code points, a proper prefix is smaller.
StrLess(a, b) ==
  \E k \in 1..(Len(b)) :
     /\ \A j \in 1..(k - 1) : j <= Len(a) /\ a[j] = b[j]
     /\ k - 1 <= Len(a)
     /\ \/ k = Len(a) + 1
        \/ k <= Len(a) /\ a[k] < b[k]

\* Path.__lt__ for two paths of temp_dir: the file names decide.
PathLess(p, q) == StrLess(StagedName(p), StagedName(q))

RECURSIVE Insert(_, _)
Insert(p, s) ==
  IF s = <<>> THEN <<p>>
  ELSE IF PathLess(p, Head(s)) THEN <<p>> \o s
  ELSE <<Head(s)>> \o Insert(p, Tail(s))

RECURSIVE Sorted(_)
\* sorted(pdf_files)
Sorted(pdf_files) ==
  IF pdf_files = <<>> THEN <<>>
  ELSE Insert(pdf_files[Len(pdf_files)], Sorted(SubSeq(pdf_files, 1, Len(pdf_files) - 1)))

\* ------------------------------------------------------------ get_all_pages
\* The bodies the catalog endpoint may answer with.
PageLists == UNION {[1..n -> Fates] : n \in 0..MaxPages}
CatalogResponses ==
  {[kind |-> k, body |-> <<>>] : k \in {"transport_error", "bad_json", "scalar"}}
    \cup {[kind |-> "list", body |-> b] : b \in PageLists}

\* get_all_pages: RequestException and JSONDecodeError give []; a JSON body
\* without a length (a number, null) makes len(pages_data) raise TypeError,
\* which no handler of get_all_pages catches.
GetAllPagesUncaught(resp) ==
  CASE resp.kind = "transport_error" -> [raised |-> FALSE, pages |-> <<>>]
    [] resp.kind = "bad_json"        -> [raised |-> TRUE, pages |-> <<>>]
    [] resp.kind = "scalar"          -> [raised |-> TRUE, pages |-> <<>>]
    [] OTHER                         -> [raised |-> FALSE, pages |-> resp.body]
GetAllPages(resp) ==
  CASE resp.kind = "transport_error" -> [raised |-> FALSE, pages |-> <<>>]
    [] resp.kind = "bad_json"        -> [raised |-> FALSE, pages |-> <<>>]
    [] resp.kind = "scalar"          -> [raised |-> TRUE, pages |-> <<>>]
    [] OTHER                         -> [raised |-> FALSE, pages |-> resp.body]

\* -------------------------------------------------------- download_pdf_page
\* Whether download_pdf_page returns a path (not None) when it returns.
ReturnsPathAlways(fate) == TRUE
ReturnsPath(fate) == fate \in {"valid", "corrupt"}

\* Whether the call gets as far as open(file_path, 'wb').
OpensFile(fate) == fate \in {"fetch_partial", "fetch_oserror", "valid", "corrupt"}

\* Whether the call raises an exception other than RequestException.
FetchRaises(fate, dirE) == OpensFile(fate) /\ (~dirE \/ fate = "fetch_oserror")

\* State of the staged file the call leaves behind.
WrittenState(fate) == IF fate \in {"valid", "corrupt"} THEN fate ELSE "partial"

DiskAfterFetch(d, dirE, pos, fate) ==
  IF OpensFile(fate) /\ dirE
    THEN [p \in (DOMAIN d) \cup {pos} |-> IF p = pos THEN WrittenState(fate) ELSE d[p]]
    ELSE d

\* -------------------------------------------------------------- combine_pdfs
\* PdfReader(f) succeeds on the file.
Parses(state) == state \in {"valid", "stale"}

\* The page a parseable staged file holds: its position and where it is from.
PageOf(d, p) == [pos |-> p, src |-> IF d[p] = "stale" THEN "stale" ELSE "run"]

RECURSIVE AddPages(_, _)
\* The for loop of combine_pdfs over the sorted paths.
AddPages(files, d) ==
  IF files = <<>> THEN <<>>
  ELSE LET p == Head(files) IN
       (IF p \in DOMAIN d /\ Parses(d[p]) THEN <<PageOf(d, p)>> ELSE <<>>)
         \o AddPages(Tail(files), d)

\* The paths combine_pdfs reads, in the order it reads them.
CombineInputs(pdf_files, d) == Sorted(pdf_files)

\* combine_pdfs(pdf_files, output_filename) with the output file behaving as w:
\* "ok", "open_fails" (open raises) or "write_fails" (pdf_writer.write raises).
CombinePdfs(pdf_files, d, w) ==
  CASE w = "ok" ->
         [success |-> "True",
          output |-> [state |-> "written", pages |-> AddPages(CombineInputs(pdf_files, d), d)]]
    [] w = "open_fails" ->
         [success |-> "False", output |-> [state |-> "none", pages |-> <<>>]]
    [] OTHER ->
         [success |-> "False", output |-> [state |-> "partial", pages |-> <<>>]]

\* -------------------------------------------------------- cleanup_temp_files
\* The faults a call of cleanup_temp_files may meet: unlink raises at the
\* file of position f (f >= 1), rmdir raises although every file was removed
\* (-1: the directory holds something else, or may not be removed), none (0).
UnlinkFaults(d) == (DOMAIN d) \cup {0, -1}

\* cleanup_temp_files meeting fault f.  The files page_NN.pdf are unlinked in
\* directory order up to the one that raises; glob yields nothing for a
\* missing directory and rmdir then raises.  Every exception is caught and
\* logged as a warning: the call never raises.
CleanupTempFilesUncaught(d, dirE, f) ==
  IF ~dirE THEN [disk |-> d, dir |-> FALSE, raised |-> TRUE]
  ELSE IF f \in DOMAIN d
    THEN [disk |-> [p \in {q \in DOMAIN d : q >= f} |-> d[p]], dir |-> TRUE, raised |-> TRUE]
  ELSE IF f = -1
    THEN [disk |-> [p \in {} |-> d[p]], dir |-> TRUE, raised |-> TRUE]
    ELSE [disk |-> [p \in {} |-> d[p]], dir |-> FALSE, raised |-> FALSE]
CleanupTempFilesRmdirInLoop(d, dirE, f) ==
  IF ~dirE \/ DOMAIN d = {} THEN [disk |-> d, dir |-> dirE, raised |-> FALSE]
  ELSE LET m == CHOOSE q \in DOMAIN d : \A r \in DOMAIN d : q <= r IN
       IF f = m THEN [disk |-> d, dir |-> TRUE, raised |-> FALSE]
       ELSE [disk |-> [p \in (DOMAIN d) \ {m} |-> d[p]],
             dir |-> ((DOMAIN d) \ {m} # {} \/ f = -1), raised |-> FALSE]
CleanupTempFiles(d, dirE, f) ==
  IF ~dirE THEN [disk |-> d, dir |-> FALSE, raised |-> FALSE]
  ELSE IF f \in DOMAIN d
    THEN [disk |-> [p \in {q \in DOMAIN d : q >= f} |-> d[p]], dir |-> TRUE, raised |-> FALSE]
  ELSE IF f = -1
    THEN [disk |-> [p \in {} |-> d[p]], dir |-> TRUE, raised |-> FALSE]
    ELSE [disk |-> [p \in {} |-> d[p]], dir |-> FALSE, raised |-> FALSE]

\* ---------------------------------------------------------------- __init__
\* After MakkalKuralDownloader(): temp_pdfs exists (mkdir(exist_ok=True)),
\* and a reused directory may still hold files of an earlier run.
Init ==
  /\ pc = "start"
  /\ catalog = "none"
  /\ pages = <<>>
  /\ i = 0
  /\ filename = 0
  /\ downloaded_files = <<>>
  /\ \E S \in SUBSET (1..MaxStale) : disk = [p \in S |-> "stale"]
  /\ dirExists = TRUE
  /\ output = [state |-> "none", pages |-> <<>>]
  /\ success = "None"
  /\ result = "None"
  /\ exitStatus = -1
  /\ visited = <<>>
  /\ nResolve = 0
  /\ nFetch = 0
  /\ nDelay = 0
  /\ nCombine = 0
  /\ nCleanup = 0
  /\ writeFault = "none"
  /\ intAt = "none"
  /\ run = 1
  /\ blocked = 0

\* ----------------------------------------------------- download_daily_paper
\* pages = self.get_all_pages(date); if not pages: return False;
\* downloaded_files = []
ListPages ==
  /\ pc = "start"
  /\ \E resp \in CatalogResponses :
       LET r == GetAllPages(resp) IN
       /\ catalog' = resp.kind
       /\ pages' = r.pages
       /\ IF r.raised THEN pc' = "main_except" /\ result' = result /\ i' = i
          ELSE IF r.pages = <<>> THEN pc' = "returned" /\ result' = "False" /\ i' = i
          ELSE pc' = "loop" /\ result' = result /\ i' = 1
  /\ downloaded_files' = <<>>
  /\ UNCHANGED <<run, blocked, filename, disk, dirExists, output, success, exitStatus,
                 visited, nResolve, nFetch, nDelay, nCombine, nCleanup, writeFault,
                 intAt>>

\* The continue statements of the loop body: on to the next descriptor.
ContinueAfterDelay == pc' = "delay" /\ i' = i
ContinueBreaks == pc' = "after_loop" /\ i' = i
Continue == pc' = "loop" /\ i' = i + 1

\* except Exception as e: log; continue
HandlePageExceptionReraises == pc' = "main_except" /\ i' = i
HandlePageException == pc' = "loop" /\ i' = i + 1

\* for i, page in enumerate(pages, 1): page_id = page.get('PageId');
\* if not page_id: continue.  The loop ends when the descriptors are used up.
NextPage ==
  /\ pc = "loop"
  /\ IF i > Len(pages)
       THEN pc' = "after_loop" /\ i' = i /\ visited' = visited
       ELSE /\ visited' = Append(visited, i)
            /\ CASE pages[i] = "notdict" -> HandlePageException
                 [] pages[i] = "noid"    -> Continue
                 [] OTHER                -> pc' = "resolve" /\ i' = i
  /\ UNCHANGED <<run, blocked, filename, catalog, pages, downloaded_files, disk,
                 dirExists, output, success, result, exitStatus, nResolve, nFetch,
                 nDelay, nCombine, nCleanup, writeFault, intAt>>

\* download_info = self.get_page_download_info(str(page_id), date);
\* if not download_info: continue; filename = download_info.get('FileName');
\* if not filename: continue
ResolveNoFilenameCheck ==
  /\ pc = "resolve"
  /\ nResolve' = nResolve + 1
  /\ CASE pages[i] = "unresolved" -> Continue /\ filename' = filename
       [] pages[i] = "nofilename" -> pc' = "fetch" /\ i' = i /\ filename' = 0
       [] OTHER                   -> pc' = "fetch" /\ i' = i /\ filename' = i
  /\ UNCHANGED <<run, blocked, catalog, pages, downloaded_files, disk, dirExists,
                 output, success, result, exitStatus, visited, nFetch, nDelay, nCombine,
                 nCleanup, writeFault, intAt>>
Resolve ==
  /\ pc = "resolve"
  /\ nResolve' = nResolve + 1
  /\ CASE pages[i] = "unresolved" -> Continue /\ filename' = filename
       [] pages[i] = "nofilename" -> Continue /\ filename' = 0
       [] OTHER                   -> pc' = "fetch" /\ i' = i /\ filename' = i
  /\ UNCHANGED <<run, blocked, catalog, pages, downloaded_files, disk, dirExists,
                 output, success, result, exitStatus, visited, nFetch, nDelay, nCombine,
                 nCleanup, writeFault, intAt>>

\* pdf_file = self.download_pdf_page(filename, i);
\* if pdf_file: downloaded_files.append(pdf_file)
Fetch ==
  /\ pc = "fetch"
  /\ nFetch' = nFetch + 1
  /\ disk' = DiskAfterFetch(disk, dirExists, i, pages[i])
  /\ IF FetchRaises(pages[i], dirExists)
       THEN HandlePageException /\ downloaded_files' = downloaded_files
       ELSE /\ pc' = "delay" /\ i' = i
            /\ downloaded_files' = IF ReturnsPath(pages[i])
                                     THEN Append(downloaded_files, i)
                                     ELSE downloaded_files
  /\ UNCHANGED <<run, blocked, catalog, pages, filename, dirExists, output, success,
                 result, exitStatus, visited, nResolve, nDelay, nCombine, nCleanup,
                 writeFault, intAt>>

\* time.sleep(1), then the next iteration
Delay ==
  /\ pc = "delay"
  /\ nDelay' = nDelay + 1
  /\ pc' = "loop"
  /\ i' = i + 1
  /\ UNCHANGED <<run, blocked, catalog, pages, filename, downloaded_files, disk,
                 dirExists, output, success, result, exitStatus, visited, nResolve,
                 nFetch, nCombine, nCleanup, writeFault, intAt>>

\* if not downloaded_files: return False
AfterLoopNoCheck ==
  /\ pc = "after_loop"
  /\ pc' = "combine"
  /\ UNCHANGED <<run, blocked, catalog, pages, i, filename, downloaded_files, disk,
                 dirExists, output, success, result, exitStatus, visited, nResolve,
                 nFetch, nDelay, nCombine, nCleanup, writeFault, intAt>>
AfterLoop ==
  /\ pc = "after_loop"
  /\ IF downloaded_files = <<>>
       THEN pc' = "returned" /\ result' = "False"
       ELSE pc' = "combine" /\ result' = result
  /\ UNCHANGED <<run, blocked, catalog, pages, i, filename, downloaded_files, disk,
                 dirExists, output, success, exitStatus, visited, nResolve, nFetch,
                 nDelay, nCombine, nCleanup, writeFault, intAt>>

\* success = self.combine_pdfs(downloaded_files, output_filename)
Combine ==
  /\ pc = "combine"
  /\ \E w \in {"ok", "open_fails", "write_fails"} :
       LET r == CombinePdfs(downloaded_files, disk, w) IN
       /\ writeFault' = w
       /\ success' = r.success
       /\ output' = r.output
  /\ nCombine' = nCombine + 1
  /\ pc' = "cleanup"
  /\ UNCHANGED <<run, blocked, catalog, pages, i, filename, downloaded_files, disk,
                 dirExists, result, exitStatus, visited, nResolve, nFetch, nDelay,
                 nCleanup, intAt>>

\* self.cleanup_temp_files() of download_daily_paper
CleanupStep ==
  /\ pc = "cleanup"
  /\ \E f \in UnlinkFaults(disk) :
       LET r == CleanupTempFiles(disk, dirExists, f) IN
       /\ disk' = r.disk
       /\ dirExists' = r.dir
       /\ blocked' = f
       /\ pc' = IF r.raised THEN "main_except" ELSE "finish"
  /\ nCleanup' = nCleanup + 1
  /\ UNCHANGED <<run, catalog, pages, i, filename, downloaded_files, output, success,
                 result, exitStatus, visited, nResolve, nFetch, nDelay, nCombine,
                 writeFault, intAt>>

\* if success: return True else: return False
ReturnResult ==
  /\ pc = "finish"
  /\ result' = success
  /\ pc' = "returned"
  /\ UNCHANGED <<run, blocked, catalog, pages, i, filename, downloaded_files, disk,
                 dirExists, output, success, exitStatus, visited, nResolve, nFetch,
                 nDelay, nCombine, nCleanup, writeFault, intAt>>

\* --------------------------------------------------------------------- main
\* if success: print(...) else: print(...); sys.exit(1)
MainResult ==
  /\ pc = "returned"
  /\ exitStatus' = IF result = "True" THEN 0 ELSE 1
  /\ pc' = "exited"
  /\ UNCHANGED <<run, blocked, catalog, pages, i, filename, downloaded_files, disk,
                 dirExists, output, success, result, visited, nResolve, nFetch, nDelay,
                 nCombine, nCleanup, writeFault, intAt>>

\* A KeyboardInterrupt raised while download_daily_paper runs: no handler of
\* the class catches it (except Exception does not), so it reaches main.  One
\* that hits while a file is being written leaves what was written so far.
Interrupt ==
  /\ pc \in RunPcs
  /\ intAt' = pc
  /\ pc' = "kbd_interrupt"
  /\ \E mid \in BOOLEAN :
       /\ disk' = IF mid /\ pc = "fetch"
                    THEN DiskAfterFetch(disk, dirExists, i, "fetch_partial")
                    ELSE disk
       /\ output' = IF mid /\ pc = "combine"
                      THEN [state |-> "partial", pages |-> <<>>]
                      ELSE output
  /\ UNCHANGED <<run, blocked, catalog, pages, i, filename, downloaded_files, dirExists,
                 success, result, exitStatus, visited, nResolve, nFetch, nDelay,
                 nCombine, nCleanup, writeFault>>

\* except KeyboardInterrupt: print(...); downloader.cleanup_temp_files();
\* sys.exit(0)
MainKeyboardInterruptNoCleanup ==
  /\ pc = "kbd_interrupt"
  /\ exitStatus' = 0
  /\ pc' = "exited"
  /\ UNCHANGED <<run, blocked, catalog, pages, i, filename, downloaded_files, disk,
                 dirExists, output, success, result, visited, nResolve, nFetch, nDelay,
                 nCombine, nCleanup, writeFault, intAt>>
MainKeyboardInterrupt ==
  /\ pc = "kbd_interrupt"
  /\ \E f \in UnlinkFaults(disk) :
       LET r == CleanupTempFiles(disk, dirExists, f) IN
       /\ disk' = r.disk
       /\ dirExists' = r.dir
       /\ blocked' = f
       /\ exitStatus' = IF r.raised THEN 1 ELSE 0
  /\ nCleanup' = nCleanup + 1
  /\ pc' = "exited"
  /\ UNCHANGED <<run, catalog, pages, i, filename, downloaded_files, output, success,
                 result, visited, nResolve, nFetch, nDelay, nCombine, writeFault,
                 intAt>>

\* except Exception as e: logging.error(...); print(...); sys.exit(1)
MainException ==
  /\ pc = "main_except"
  /\ exitStatus' = 1
  /\ pc' = "exited"
  /\ UNCHANGED <<run, blocked, catalog, pages, i, filename, downloaded_files, disk,
                 dirExists, output, success, result, visited, nResolve, nFetch, nDelay,
                 nCombine, nCleanup, writeFault, intAt>>

Next ==
  \/ ListPages
  \/ NextPage
  \/ Resolve
  \/ Fetch
  \/ Delay
  \/ AfterLoop
  \/ Combine
  \/ CleanupStep
  \/ ReturnResult
  \/ MainResult
  \/ Interrupt
  \/ MainKeyboardInterrupt
  \/ MainException

Spec == Init /\ [][Next]_vars

\* ------------------------------------------------- assembly of large catalogs
\* The run at the call of combine_pdfs, for a catalog of b descriptors of
\* which the pages at positions a and b were staged and every other
\* descriptor had no PageId.
InitAsm ==
  \E a \in 1..MaxPosition, b \in 1..MaxPosition :
    /\ a <= b
    /\ pc = "combine"
    /\ catalog = "list"
    /\ pages = [k \in 1..b |-> IF k \in {a, b} THEN "valid" ELSE "noid"]
    /\ i = b + 1
    /\ filename = b
    /\ downloaded_files = IF a = b THEN <<a>> ELSE <<a, b>>
    /\ disk = [p \in {a, b} |-> "valid"]
    /\ dirExists = TRUE
    /\ output = [state |-> "none", pages |-> <<>>]
    /\ success = "None"
    /\ result = "None"
    /\ exitStatus = -1
    /\ visited = [k \in 1..b |-> k]
    /\ nResolve = Cardinality({a, b})
    /\ nFetch = Cardinality({a, b})
    /\ nDelay = Cardinality({a, b})
    /\ nCombine = 0
    /\ nCleanup = 0
    /\ writeFault = "none"
    /\ intAt = "none"
    /\ run = 1
    /\ blocked = 0

NextAsm ==
  \/ Combine
  \/ CleanupStep
  \/ ReturnResult
  \/ MainResult

SpecAsm == InitAsm /\ [][NextAsm]_vars

\* ---------------------------------------------- runs on the same downloader
\* download_daily_paper is called again on the same object after a run has
\* returned: its locals start afresh, temp_pdfs and the output file are what
\* the earlier run left (__init__, the only place that creates temp_pdfs, is
\* not run again).  A parseable file left behind is a file of an earlier run.
Rerun ==
  /\ pc = "returned"
  /\ run < MaxRuns
  /\ run' = run + 1
  /\ pc' = "start"
  /\ catalog' = "none"
  /\ pages' = <<>>
  /\ i' = 0
  /\ filename' = 0
  /\ downloaded_files' = <<>>
  /\ disk' = [p \in DOMAIN disk |-> IF Parses(disk[p]) THEN "stale" ELSE disk[p]]
  /\ success' = "None"
  /\ result' = "None"
  /\ visited' = <<>>
  /\ nResolve' = 0
  /\ nFetch' = 0
  /\ nDelay' = 0
  /\ nCombine' = 0
  /\ nCleanup' = 0
  /\ writeFault' = "none"
  /\ blocked' = 0
  /\ UNCHANGED <<dirExists, output, exitStatus, intAt>>

NextRuns ==
  \/ Next
  \/ Rerun

SpecRuns == Init /\ [][NextRuns]_vars

\* ------------------------------------------------- cleanup called directly
\* cleanup_temp_files called on a downloader whose staging directory is in any
\* state: missing, empty, or holding any files page_NN.pdf.
InitCleanup ==
  /\ pc = "cleanup_call"
  /\ catalog = "none"
  /\ pages = <<>>
  /\ i = 0
  /\ filename = 0
  /\ downloaded_files = <<>>
  /\ \E S \in SUBSET (1..MaxPages) :
       \E d \in [S -> {"stale", "partial", "valid", "corrupt"}] : disk = d
  /\ dirExists \in BOOLEAN
  /\ ~dirExists => DOMAIN disk = {}
  /\ output = [state |-> "none", pages |-> <<>>]
  /\ success = "None"
  /\ result = "None"
  /\ exitStatus = -1
  /\ visited = <<>>
  /\ nResolve = 0
  /\ nFetch = 0
  /\ nDelay = 0
  /\ nCombine = 0
  /\ nCleanup = 0
  /\ writeFault = "none"
  /\ intAt = "none"
  /\ run = 1
  /\ blocked = 0

\* cleanup_temp_files(), meeting any fault
CleanupCall ==
  /\ pc = "cleanup_call"
  /\ \E f \in UnlinkFaults(disk) :
       LET r == CleanupTempFiles(disk, dirExists, f) IN
       /\ disk' = r.disk
       /\ dirExists' = r.dir
       /\ blocked' = f
       /\ pc' = IF r.raised THEN "raised" ELSE "cleanup_again"
  /\ nCleanup' = nCleanup + 1
  /\ UNCHANGED <<run, catalog, pages, i, filename, downloaded_files, output, success,
                 result, exitStatus, visited, nResolve, nFetch, nDelay, nCombine,
                 writeFault, intAt>>

\* cleanup_temp_files() once more, in succession: what could not be removed
\* in the first call cannot be removed now.
CleanupAgain ==
  /\ pc = "cleanup_again"
  /\ LET r == CleanupTempFiles(disk, dirExists, blocked) IN
       /\ disk' = r.disk
       /\ dirExists' = r.dir
       /\ pc' = IF r.raised THEN "raised" ELSE "cleaned_twice"
  /\ nCleanup' = nCleanup + 1
  /\ UNCHANGED <<run, blocked, catalog, pages, i, filename, downloaded_files, output,
                 success, result, exitStatus, visited, nResolve, nFetch, nDelay,
                 nCombine, writeFault, intAt>>

NextCleanup ==
  \/ CleanupCall
  \/ CleanupAgain

SpecCleanup == InitCleanup /\ [][NextCleanup]_vars

\* ------------------------------------------------------------------- claims
\* The run has returned to main (with True or False).
Returned == result # "None"

\* Positions of the pages of the combined document, in document order.
OutputPositions == [k \in 1..Len(output.pages) |-> output.pages[k].pos]

\* C1: every run of download_daily_paper performs cleanup before it returns,
\* on every branch: once the run has returned, cleanup_temp_files was called
\* and no staged file and no staging directory remains.
C1_CleanupBeforeEveryReturn ==
  Returned => (nCleanup >= 1 /\ DOMAIN disk = {} /\ ~dirExists)

\* C2: when none of the staged files handed to combine_pdfs parses, it returns
\* failure and writes no output document, and the run reports failure.
C2_NoValidFileFails ==
  (nCombine >= 1 /\ \A k \in 1..Len(downloaded_files) : pages[downloaded_files[k]] # "valid")
    => (success = "False" /\ output.state = "none" /\ result # "True")

\* C4: the pages of the combined document are in ascending sequence-position
\* order, for every number of pages in the catalog.
C4_AscendingPositionOrder ==
  output.state = "written"
    => \A j \in 1..Len(output.pages), k \in 1..Len(output.pages) :
         j < k => output.pages[j].pos < output.pages[k].pos

\* C8: the process exit status is zero exactly when the run succeeded; it is
\* non-zero on failure, on an unexpected error and on a user interruption.
C8_ExitZeroIffSuccess ==
  pc = "exited" => (exitStatus = 0 <=> result = "True")

\* C10: for every i from 1 to 99, the staged file name of position i sorts
\* strictly before the one of position i+1 (checked on the staged pairs).
C10_NamesMonotonic ==
  \A k \in 1..(Len(downloaded_files) - 1) :
    LET a == downloaded_files[k]
        b == downloaded_files[k + 1]
    IN (a >= 1 /\ a <= 99 /\ b = a + 1) => PathLess(a, b)

\* Positions whose page failed at no step: staged and parseable.
GoodPages == {p \in 1..Len(pages) : pages[p] = "valid"}

\* The catalog call gave an empty sequence.
EmptyCatalog ==
  \/ catalog \in {"transport_error", "bad_json"}
  \/ catalog = "list" /\ pages = <<>>

\* C3: a failure of single pages never aborts the run: no page failure raises
\* out of the loop, and a run that has returned with at least one page staged
\* and parseable (the output file being writable) reports success and its
\* combined document holds exactly the pages that did not fail, once each.
C3_PageFailureNeverAborts ==
  /\ catalog = "list" => pc # "main_except"
  /\ (Returned /\ GoodPages # {} /\ writeFault \in {"none", "ok"})
       => /\ result = "True"
          /\ output.state = "written"
          /\ Range(OutputPositions) = GoodPages
          /\ Len(output.pages) = Cardinality(GoodPages)
          /\ \A k \in 1..Len(output.pages) : output.pages[k].src = "run"

\* One of three pages fails to resolve; the other two are in the document.
C3_Witness ==
  /\ Returned
  /\ Len(pages) = 3
  /\ pages[2] = "unresolved"
  /\ GoodPages = {1, 3}
  /\ result = "True"
  /\ OutputPositions = <<1, 3>>

\* C5: a run whose catalog call gives an empty sequence ends in failure
\* without any resolver request, fetch request or assembler call, and
\* without raising.
C5_EmptyCatalogFails ==
  EmptyCatalog
    => /\ pc \in {"returned", "exited"}
       /\ result = "False"
       /\ nResolve = 0 /\ nFetch = 0 /\ nCombine = 0
       /\ pc = "exited" => exitStatus = 1

C5_Witness ==
  /\ catalog = "bad_json"
  /\ pc = "exited"
  /\ result = "False"

\* C6: every page of the combined document comes from a file that was
\* downloaded successfully in this run and parsed: no partially written file,
\* no file left from an earlier run, no file that fails to parse.
C6_OnlyStagedValidPages ==
  \A k \in 1..Len(output.pages) :
    /\ output.pages[k].src = "run"
    /\ output.pages[k].pos \in Range(downloaded_files)
    /\ pages[output.pages[k].pos] = "valid"

\* The document was assembled while the directory held a file of an earlier
\* run, a partially written file and a staged file that does not parse.
C6_Witness ==
  /\ pc = "cleanup"
  /\ output.state = "written"
  /\ Len(output.pages) = 1
  /\ \E p \in DOMAIN disk : disk[p] = "stale"
  /\ \E p \in DOMAIN disk : disk[p] \in {"partial", "corrupt"}

\* C7: a run interrupted by the user within the per-page loop still calls
\* cleanup_temp_files before the process terminates.
C7_InterruptStillCleansUp ==
  (pc = "exited" /\ intAt \in LoopPcs) => nCleanup >= 1

C7_Witness ==
  /\ pc = "exited"
  /\ intAt = "fetch"
  /\ downloaded_files # <<>>
  /\ nCleanup = 1

\* C9: for a non-empty catalog of N descriptors the loop takes the positions
\* 1..N in order, one iteration each, whatever pages fail: once the loop is
\* left without an interruption, exactly N iterations have run.
C9_LoopRunsNIterations ==
  /\ visited = [k \in 1..Len(visited) |-> k]
  /\ (catalog = "list" /\ pages # <<>> /\ intAt \notin (LoopPcs \cup {"start"})
        /\ pc \notin LoopPcs)
       => visited = [k \in 1..Len(pages) |-> k]

\* Three descriptors, every page fails, and the loop still took all three.
C9_Witness ==
  /\ pc = "after_loop"
  /\ Len(pages) = 3
  /\ downloaded_files = <<>>
  /\ pages[1] # pages[2]
  /\ visited = <<1, 2, 3>>

\* C11: at the start of every run the staging directory is established, also
\* in a run that follows one whose cleanup removed it: while the per-page
\* loop runs the directory exists, and a download that succeeds is staged.
C11_StagingEstablishedEachRun ==
  /\ pc \in LoopPcs => dirExists
  /\ (pc = "delay" /\ pages[i] \in {"valid", "corrupt"})
       => (i \in Range(downloaded_files) /\ i \in DOMAIN disk)

\* Positions already processed for which download_pdf_page was called and
\* returned, with a path or with None.
FetchReturned ==
  {p \in 1..(i - 1) : pages[p] \in {"fetch_fail", "fetch_partial", "valid", "corrupt"}}

C13_AssemblerNeedsStagedFile ==
  /\ pc \in {"combine", "cleanup", "finish"} => downloaded_files # <<>>
  /\ nCombine >= 1 => downloaded_files # <<>>
  /\ (catalog = "list" /\ pages # <<>> /\ downloaded_files = <<>> /\ intAt = "none"
        /\ pc \in {"returned", "exited"})
       => /\ result = "False"
          /\ nCombine = 0
          /\ output.state = "none"
          /\ pc = "exited" => exitStatus = 1

\* Three pages were tried, one download was attempted, nothing was staged.
C13_Witness ==
  /\ pc = "returned"
  /\ Len(pages) = 3
  /\ nFetch >= 1
  /\ downloaded_files = <<>>
  /\ result = "False"
  /\ nCombine = 0

\* C14: a failure inside cleanup never raises to the caller and never changes
\* the run result: a run that reached assembly returns the assembler's
\* result, whether or not cleanup failed.
C14_CleanupFailureNotFatal ==
  /\ (nCleanup >= 1 /\ intAt = "none") => pc # "main_except"
  /\ (nCombine >= 1 /\ intAt = "none" /\ pc \in {"returned", "exited"})
       => /\ result = success
          /\ pc = "exited" => (exitStatus = 0 <=> success = "True")

\* A staged file could not be deleted, the directory remains, the run
\* still returned the assembler's True.
C14_Witness ==
  /\ pc = "returned"
  /\ blocked >= 1
  /\ DOMAIN disk # {}
  /\ dirExists
  /\ success = "True"
  /\ result = "True"

\* C15: cleanup is idempotent: of two calls of cleanup_temp_files in
\* succession neither raises, and the second leaves the staging directory as
\* the first left it.
C15_CleanupIdempotent ==
  [][/\ pc = "cleanup_call" => pc' = "cleanup_again"
     /\ pc = "cleanup_again"
          => (pc' = "cleaned_twice" /\ disk' = disk /\ dirExists' = dirExists)]_vars

\* Both calls met a file that cannot be deleted, with other files around.
C15_Witness ==
  /\ pc = "cleaned_twice"
  /\ nCleanup = 2
  /\ blocked >= 2
  /\ Cardinality(DOMAIN disk) >= 2

\* C16: a fetch request for a page is issued only after the resolver gave a
\* non-empty filename for that same page, and pages are handled one at a
\* time: every resolver or fetch request is for the page the loop took last,
\* all earlier positions having been taken and left, and the loop index
\* moves on by one page at a time.
C16_ResolveThenFetchOneAtATime ==
  [][/\ nFetch' # nFetch
          => (pc = "fetch" /\ nFetch' = nFetch + 1 /\ filename # 0 /\ filename = i)
     /\ nResolve' # nResolve => (pc = "resolve" /\ nResolve' = nResolve + 1)
     /\ (nFetch' # nFetch \/ nResolve' # nResolve)
          => (i >= 1 /\ visited = [k \in 1..i |-> k] /\ nResolve' <= i /\ nFetch' <= nResolve')
     /\ pc \in LoopPcs => i' \in {i, i + 1}]_vars

\* The second page has been resolved and fetched after the first.
C16_Witness ==
  /\ pc = "delay"
  /\ i = 2
  /\ filename = 2
  /\ nResolve = 2
  /\ nFetch = 2

====
